---- MODULE Spec2Model ----
(***************************************************************************)
(* devmem-cli: the code-unit extractor (IndexManager), the SQLite store    *)
(* (Database) and the relevance-ranked search (Database.searchCode,        *)
(* QueryManager) as a state machine.                                       *)
(*                                                                         *)
(* Text is a sequence of one-character strings.  Offsets are 0-based as in *)
(* the TypeScript source: CharAt(s, i) is s[i] of the source and           *)
(* Substring(s, a, b) is s.substring(a, b).                                *)
(***************************************************************************)
EXTENDS Integers, Sequences, FiniteSets, TLC

\* ------------------------------------------------------------------ text

UpperSeq == <<"A","B","C","D","E","F","G","H","I","J","K","L","M","N","O","P","Q","R","S","T","U","V","W","X","Y","Z">>

LowerSeq == <<"a","b","c","d","e","f","g","h","i","j","k","l","m","n","o","p","q","r","s","t","u","v","w","x","y","z">>

DigitSet == {"0","1","2","3","4","5","6","7","8","9"}

UpperSet == {UpperSeq[i] : i \in DOMAIN UpperSeq}

LowerSet == {LowerSeq[i] : i \in DOMAIN LowerSeq}

\* The printable ASCII characters in code order: codes 32 (the space) to 95.
AsciiLow == <<" ","!","\"","#","$","%","&","'","(",")","*","+",",","-",".","/","0","1","2","3","4","5","6","7","8","9",":",";","<","=",">","?","@","A","B","C","D","E","F","G","H","I","J","K","L","M","N","O","P","Q","R","S","T","U","V","W","X","Y","Z","[","\\","]","^","_">>

\* ... and codes 97 to 126.
AsciiHigh == <<"a","b","c","d","e","f","g","h","i","j","k","l","m","n","o","p","q","r","s","t","u","v","w","x","y","z","{","|","}","~">>

\* The character's code: what SQLite's BINARY collation compares.
Ord(c) ==
  IF c = "\t" THEN 9
  ELSE IF c = "\n" THEN 10
  ELSE IF c = "\r" THEN 13
  ELSE IF \E i \in DOMAIN AsciiHigh : AsciiHigh[i] = c
  THEN 96 + (CHOOSE i \in DOMAIN AsciiHigh : AsciiHigh[i] = c)
  ELSE 31 + (CHOOSE i \in DOMAIN AsciiLow : AsciiLow[i] = c)

\* \w of the regular expressions: [A-Za-z0-9_].
IsWordChar(c) == c \in UpperSet \cup LowerSet \cup DigitSet \cup {"_"}

\* [a-zA-Z_] of the keyword tokenizer.
IsIdentStart(c) == c \in UpperSet \cup LowerSet \cup {"_"}

\* \s of the regular expressions.
IsSpaceChar(c) == c \in {" ", "\n", "\t", "\r"}

\* String.prototype.toLowerCase / SQLite LIKE's ASCII case folding, one character.
LowerChar(c) ==
  IF c \in UpperSet
  THEN LowerSeq[CHOOSE i \in DOMAIN UpperSeq : UpperSeq[i] = c]
  ELSE c

toLowerCase(s) == [i \in DOMAIN s |-> LowerChar(s[i])]

CharAt(s, i) == s[i + 1]

Substring(s, a, b) == SubSeq(s, a + 1, b)

\* s.startsWith(lit, i)
StartsWith(s, i, lit) ==
  /\ i + Len(lit) <= Len(s)
  /\ \A k \in 1..Len(lit) : s[i + k] = lit[k]

\* s.split('\n') restricted to the offsets a..b-1 (a < b): the pieces between the
\* line breaks, computed by halving the range so that long texts stay shallow.
RECURSIVE SplitRange(_, _, _)
SplitRange(s, a, b) ==
  IF b = a + 1
  THEN IF CharAt(s, a) = "\n" THEN << <<>>, <<>> >> ELSE << <<CharAt(s, a)>> >>
  ELSE LET mid   == (a + b) \div 2
           left  == SplitRange(s, a, mid)
           right == SplitRange(s, mid, b)
       IN SubSeq(left, 1, Len(left) - 1)
            \o << left[Len(left)] \o right[1] >>
            \o Tail(right)

\* s.split('\n'): always at least one piece.
SplitLines(s) == IF s = <<>> THEN << <<>> >> ELSE SplitRange(s, 0, Len(s))

\* pieces.join(sep)
RECURSIVE Join(_, _)
Join(pieces, sep) ==
  IF pieces = <<>> THEN <<>>
  ELSE IF Len(pieces) = 1 THEN pieces[1]
  ELSE pieces[1] \o sep \o Join(Tail(pieces), sep)

\* ------------------------------------------------- IndexManager: brace matching

\* FcbStep with the look-behind for a backslash left out: any quote of the same
\* kind ends the string.
FcbStepNoEscape(content, st, i) ==
  LET char == CharAt(content, i) IN
  IF st.inString
  THEN IF char = st.stringChar
       THEN [st EXCEPT !.inString = FALSE]
       ELSE st
  ELSE IF char = "\"" \/ char = "'"
  THEN [st EXCEPT !.inString = TRUE, !.stringChar = char]
  ELSE IF char = "{"
  THEN [st EXCEPT !.openBraces = @ + 1]
  ELSE IF char = "}"
  THEN IF st.openBraces - 1 = 0
       THEN [st EXCEPT !.openBraces = @ - 1, !.ret = i + 1]
       ELSE [st EXCEPT !.openBraces = @ - 1]
  ELSE st

\* One iteration of the for loop of findClosingBrace at offset i. st holds the
\* loop's locals and ret, the value returned from inside the loop (-1: none yet).
FcbStep(content, st, i) ==
  LET char == CharAt(content, i) IN
  IF st.inString
  THEN IF char = st.stringChar /\ (i = 0 \/ CharAt(content, i - 1) # "\\")
       THEN [st EXCEPT !.inString = FALSE]
       ELSE st
  ELSE IF char = "\"" \/ char = "'"
  THEN [st EXCEPT !.inString = TRUE, !.stringChar = char]
  ELSE IF char = "{"
  THEN [st EXCEPT !.openBraces = @ + 1]
  ELSE IF char = "}"
  THEN IF st.openBraces - 1 = 0
       THEN [st EXCEPT !.openBraces = @ - 1, !.ret = i + 1]
       ELSE [st EXCEPT !.openBraces = @ - 1]
  ELSE st

\* The iterations i = a, ..., b-1 of the loop in order, none after a return
\* (the range is halved so that long texts stay shallow).
RECURSIVE FcbLoop(_, _, _, _)
FcbLoop(content, st, a, b) ==
  IF st.ret # -1 \/ a >= b THEN st
  ELSE IF b = a + 1 THEN FcbStep(content, st, a)
  ELSE LET mid == (a + b) \div 2
       IN FcbLoop(content, FcbLoop(content, st, a, mid), mid, b)

findClosingBrace(content, startIndex) ==
  LET st == FcbLoop(content,
                    [openBraces |-> 0, inString |-> FALSE, stringChar |-> "", ret |-> -1],
                    startIndex, Len(content))
  IN IF st.ret # -1 THEN st.ret ELSE Len(content)

\* ------------------------------------------- IndexManager: the regular expressions

KwFunction == <<"f","u","n","c","t","i","o","n">>

KwAsync == <<"a","s","y","n","c">>

KwConst == <<"c","o","n","s","t">>

KwClass == <<"c","l","a","s","s">>

\* The offset after the longest run of \w from offset i (greedy \w+ / \w*): the
\* first offset from i on that holds no \w, or the end of the text.
WordEnd(s, i) ==
  IF \E j \in i..(Len(s) - 1) : ~IsWordChar(CharAt(s, j))
  THEN CHOOSE j \in i..(Len(s) - 1) :
         /\ ~IsWordChar(CharAt(s, j))
         /\ \A k \in i..(j - 1) : IsWordChar(CharAt(s, k))
  ELSE IF i < Len(s) THEN Len(s) ELSE i

\* The offset after the longest run of \s from offset i (greedy \s+ / \s*).
SpaceEnd(s, i) ==
  IF \E j \in i..(Len(s) - 1) : ~IsSpaceChar(CharAt(s, j))
  THEN CHOOSE j \in i..(Len(s) - 1) :
         /\ ~IsSpaceChar(CharAt(s, j))
         /\ \A k \in i..(j - 1) : IsSpaceChar(CharAt(s, k))
  ELSE IF i < Len(s) THEN Len(s) ELSE i

\* The offset after the longest run of [^)] from offset i.
NotParenEnd(s, i) ==
  IF \E j \in i..(Len(s) - 1) : CharAt(s, j) = ")"
  THEN CHOOSE j \in i..(Len(s) - 1) :
         /\ CharAt(s, j) = ")"
         /\ \A k \in i..(j - 1) : CharAt(s, k) # ")"
  ELSE IF i < Len(s) THEN Len(s) ELSE i

NoMatch == [found |-> FALSE]

Match(index, end, name) == [found |-> TRUE, index |-> index, end |-> end, name |-> name]

\* function\s+(\w+) tried at offset j, for a match that starts at offset i.
FunctionKeywordAt(s, i, j) ==
  IF ~StartsWith(s, j, KwFunction) THEN NoMatch
  ELSE LET sp == SpaceEnd(s, j + Len(KwFunction))
           w  == WordEnd(s, sp)
       IN IF sp > j + Len(KwFunction) /\ w > sp
          THEN Match(i, w, Substring(s, sp, w))
          ELSE NoMatch

\* First alternative: (async\s+)?function\s+(\w+)
MatchDeclaration(s, i) ==
  LET sp == SpaceEnd(s, i + Len(KwAsync))
      withAsync ==
        IF StartsWith(s, i, KwAsync) /\ sp > i + Len(KwAsync)
        THEN FunctionKeywordAt(s, i, sp)
        ELSE NoMatch
  IN IF withAsync.found THEN withAsync ELSE FunctionKeywordAt(s, i, i)

\* Second alternative: const\s+(\w+)\s*=\s*(async\s+)?\(
MatchConstArrow(s, i) ==
  IF ~StartsWith(s, i, KwConst) THEN NoMatch
  ELSE LET sp1 == SpaceEnd(s, i + Len(KwConst))
           w   == WordEnd(s, sp1)
           sp2 == SpaceEnd(s, w)
           sp3 == SpaceEnd(s, sp2 + 1)
           sp4 == SpaceEnd(s, sp3 + Len(KwAsync))
       IN IF ~(sp1 > i + Len(KwConst) /\ w > sp1 /\ StartsWith(s, sp2, <<"=">>))
          THEN NoMatch
          ELSE IF /\ StartsWith(s, sp3, KwAsync)
                  /\ sp4 > sp3 + Len(KwAsync)
                  /\ StartsWith(s, sp4, <<"(">>)
          THEN Match(i, sp4 + 1, Substring(s, sp1, w))
          ELSE IF StartsWith(s, sp3, <<"(">>)
          THEN Match(i, sp3 + 1, Substring(s, sp1, w))
          ELSE NoMatch

\* Third alternative: (\w+)\s*\([^)]*\)\s*{
MatchCallBlock(s, i) ==
  LET w   == WordEnd(s, i)
      sp1 == SpaceEnd(s, w)
      p   == NotParenEnd(s, sp1 + 1)
      sp2 == SpaceEnd(s, p + 1)
  IN IF /\ w > i
        /\ StartsWith(s, sp1, <<"(">>)
        /\ StartsWith(s, p, <<")">>)
        /\ StartsWith(s, sp2, <<"{">>)
     THEN Match(i, sp2 + 1, Substring(s, i, w))
     ELSE NoMatch

\* functionRegex tried at offset i: the alternatives in their order.
MatchFunctionAt(s, i) ==
  LET a == MatchDeclaration(s, i)
      b == MatchConstArrow(s, i)
  IN IF a.found THEN a ELSE IF b.found THEN b ELSE MatchCallBlock(s, i)

\* classRegex tried at offset i: class\s+(\w+)
MatchClassAt(s, i) ==
  IF ~StartsWith(s, i, KwClass) THEN NoMatch
  ELSE LET sp == SpaceEnd(s, i + Len(KwClass))
           w  == WordEnd(s, sp)
       IN IF sp > i + Len(KwClass) /\ w > sp
          THEN Match(i, w, Substring(s, sp, w))
          ELSE NoMatch

\* The leftmost offset in a..b-1 at which functionRegex matches, with the match.
RECURSIVE FirstFunction(_, _, _)
FirstFunction(s, a, b) ==
  IF a >= b THEN NoMatch
  ELSE IF b = a + 1 THEN MatchFunctionAt(s, a)
  ELSE LET mid  == (a + b) \div 2
           left == FirstFunction(s, a, mid)
       IN IF left.found THEN left ELSE FirstFunction(s, mid, b)

\* functionRegex.exec(content) with lastIndex = i: the leftmost match from i on.
ExecFunction(s, i) == FirstFunction(s, i, Len(s))

\* The leftmost offset in a..b-1 at which classRegex matches, with the match.
RECURSIVE FirstClass(_, _, _)
FirstClass(s, a, b) ==
  IF a >= b THEN NoMatch
  ELSE IF b = a + 1 THEN MatchClassAt(s, a)
  ELSE LET mid  == (a + b) \div 2
           left == FirstClass(s, a, mid)
       IN IF left.found THEN left ELSE FirstClass(s, mid, b)

\* classRegex.exec(content) with lastIndex = i.
ExecClass(s, i) == FirstClass(s, i, Len(s))

\* ---------------------------------------------------- IndexManager: keywords

Excluded ==
  { KwConst, <<"l","e","t">>, <<"v","a","r">>, <<"i","f">>, <<"e","l","s","e">>,
    <<"f","o","r">>, <<"w","h","i","l","e">>, <<"r","e","t","u","r","n">>,
    KwFunction, KwClass }

\* The tokens of /\b[a-zA-Z_]\w*\b/g that start at an offset in a..b-1, in order:
\* a token starts where [a-zA-Z_] follows a word boundary and runs to the end of
\* the word.
RECURSIVE WordsRange(_, _, _)
WordsRange(s, a, b) ==
  IF a >= b THEN <<>>
  ELSE IF b = a + 1
  THEN IF /\ IsIdentStart(CharAt(s, a))
          /\ (a = 0 \/ ~IsWordChar(CharAt(s, a - 1)))
       THEN <<Substring(s, a, WordEnd(s, a))>>
       ELSE <<>>
  ELSE LET mid == (a + b) \div 2
       IN WordsRange(s, a, mid) \o WordsRange(s, mid, b)

\* code.match(/\b[a-zA-Z_]\w*\b/g) || []
MatchWords(s) == WordsRange(s, 0, Len(s))

\* words.forEach(...) over a Set: insertion order kept, a present value not re-added.
RECURSIVE AddKeywords(_, _)
AddKeywords(words, keywords) ==
  IF words = <<>> THEN keywords
  ELSE LET word == Head(words)
           low  == toLowerCase(word)
       IN IF word \notin Excluded /\ Len(word) > 2
             /\ ~(\E k \in DOMAIN keywords : keywords[k] = low)
          THEN AddKeywords(Tail(words), Append(keywords, low))
          ELSE AddKeywords(Tail(words), keywords)

extractKeywords(code) == Join(AddKeywords(MatchWords(code), <<>>), <<" ">>)

\* ------------------------------------------- IndexManager: functions and classes

\* UnitOf with lineEnd taken as the line of the last character of the body.
UnitOfAbsoluteEnd(content, m) ==
  LET lineStart == Len(SplitLines(Substring(content, 0, m.index)))
      endIndex  == findClosingBrace(content, m.index)
      code      == Substring(content, m.index, endIndex)
      lineEnd   == lineStart + Len(SplitLines(code)) - 1
  IN [ name |-> m.name, code |-> code, lineStart |-> lineStart,
       lineEnd |-> lineEnd, keywords |-> extractKeywords(code), index |-> m.index ]

\* The unit pushed for a match; index is match.index, which the source does not keep.
UnitOf(content, m) ==
  LET lineStart == Len(SplitLines(Substring(content, 0, m.index)))
      endIndex  == findClosingBrace(content, m.index)
      code      == Substring(content, m.index, endIndex)
      lineEnd   == lineStart + Len(SplitLines(code))
  IN [ name |-> m.name, code |-> code, lineStart |-> lineStart,
       lineEnd |-> lineEnd, keywords |-> extractKeywords(code), index |-> m.index ]

RECURSIVE FunctionsFrom(_, _)
FunctionsFrom(content, lastIndex) ==
  LET m == ExecFunction(content, lastIndex)
  IN IF ~m.found THEN <<>>
     ELSE <<UnitOf(content, m)>> \o FunctionsFrom(content, m.end)

extractFunctions(content) == FunctionsFrom(content, 0)

RECURSIVE ClassesFrom(_, _)
ClassesFrom(content, lastIndex) ==
  LET m == ExecClass(content, lastIndex)
  IN IF ~m.found THEN <<>>
     ELSE <<UnitOf(content, m)>> \o ClassesFrom(content, m.end)

extractClasses(content) == ClassesFrom(content, 0)

\* ------------------------------------------------------------------ Database
\* A store value db is [projects, entries, projectSeq, entrySeq, foreignKeys]:
\* the two tables, their AUTOINCREMENT counters and whether the SQLite build in
\* use enforces the FOREIGN KEY of code_entries. The source sets no PRAGMA, so
\* that is whatever the build of the SQLite binding defaults to.
\* The column indexed_at (datetime('now')) is left out: no statement modelled
\* here reads it.

\* SELECT * FROM projects WHERE name = ?  (the rows: none or one, name is UNIQUE)
ProjectRows(db, name) == { p \in db.projects : p.name = name }

\* getProject(name), with null as the row [id |-> 0].
NoProject == [id |-> 0]

getProject(db, name) ==
  IF ProjectRows(db, name) = {} THEN NoProject
  ELSE CHOOSE p \in ProjectRows(db, name) : TRUE

\* addProject: INSERT OR REPLACE INTO projects (name, path, indexed_at).
\* A row of the same name is deleted and a new row inserted under a new id, with
\* file_count back at its default 0. Under enforced foreign keys the delete fails
\* the statement when an entry still refers to the old row.
addProject(db, name, path) ==
  LET old      == ProjectRows(db, name)
      oldIds   == { p.id : p \in old }
      referred == \E e \in db.entries : e.projectId \in oldIds
      id       == db.projectSeq + 1
  IN IF db.foreignKeys /\ referred
     THEN [ db |-> db, error |-> "SQLITE_CONSTRAINT_FOREIGNKEY", lastInsertRowid |-> 0 ]
     ELSE [ db |-> [db EXCEPT
                      !.projects = (@ \ old) \cup
                        { [id |-> id, name |-> name, path |-> path, fileCount |-> 0] },
                      !.projectSeq = id],
            error |-> "none",
            lastInsertRowid |-> id ]

\* updateProjectFileCount that stores nothing.
UpdateProjectFileCountSkipped(db, projectId, count) == db

\* updateProjectFileCount: UPDATE projects SET file_count = ? WHERE id = ?
updateProjectFileCount(db, projectId, count) ==
  [db EXCEPT !.projects =
     { IF p.id = projectId THEN [p EXCEPT !.fileCount = count] ELSE p : p \in @ }]

\* addCodeEntry: INSERT INTO code_entries (...), the id from AUTOINCREMENT.
\* (indexProject inserts only under the id addProject has just returned, so the
\* foreign key of the new row always has its parent.)
addCodeEntry(db, entry) ==
  [db EXCEPT
     !.entries = @ \cup
       { [ id |-> db.entrySeq + 1, projectId |-> entry.projectId,
           filePath |-> entry.filePath, name |-> entry.name, type |-> entry.type,
           code |-> entry.code, snippet |-> entry.snippet,
           lineStart |-> entry.lineStart, lineEnd |-> entry.lineEnd,
           keywords |-> entry.keywords ] },
     !.entrySeq = @ + 1]

\* clearProjectEntries without its WHERE: DELETE FROM code_entries.
ClearAllEntries(db, projectId) == [db EXCEPT !.entries = {}]

\* clearProjectEntries: DELETE FROM code_entries WHERE project_id = ?
clearProjectEntries(db, projectId) ==
  [db EXCEPT !.entries = { e \in @ : e.projectId # projectId }]

\* getCodeEntry(id): SELECT * FROM code_entries WHERE id = ? (the rows: none or one).
getCodeEntry(db, id) == { e \in db.entries : e.id = id }

\* QueryManager.getCode(id): no row throws, else the row's code.
getCode(db, id) ==
  IF getCodeEntry(db, id) = {}
  THEN [ error |-> "Code entry not found" ]
  ELSE [ error |-> "none", code |-> (CHOOSE e \in getCodeEntry(db, id) : TRUE).code ]

\* The ce columns of a projects row that LEFT JOIN matched with no entry: NULL.
NullEntry == [id |-> 0]

\* FROM projects p LEFT JOIN code_entries ce ON p.id = ce.project_id: pairs <<p, ce>>.
JoinedRows(db) ==
  { x \in db.projects \X db.entries : x[2].projectId = x[1].id }
    \cup { <<p, NullEntry>> : p \in { q \in db.projects :
                                        ~\E e \in db.entries : e.projectId = q.id } }

\* SUM(p.file_count) over joined rows.
RECURSIVE SumFileCount(_)
SumFileCount(rows) ==
  IF rows = {} THEN 0
  ELSE LET r == CHOOSE x \in rows : TRUE
       IN r[1].fileCount + SumFileCount(rows \ {r})

\* SUM(ce.line_end - ce.line_start) over joined rows that have an entry.
RECURSIVE SumLines(_)
SumLines(rows) ==
  IF rows = {} THEN 0
  ELSE LET r == CHOOSE x \in rows : TRUE
       IN (r[2].lineEnd - r[2].lineStart) + SumLines(rows \ {r})

\* The aggregates of getStats over the joined rows. A value that may be NULL is
\* the set of its values: {} for NULL (SUM over no row, or over NULLs only).
StatsOf(rows) ==
  [ totalProjects  |-> Cardinality({ r[1].id : r \in rows }),
    totalFiles     |-> IF rows = {} THEN {} ELSE { SumFileCount(rows) },
    totalFunctions |-> IF rows = {} THEN {}
                       ELSE { Cardinality({ r \in rows : r[2] # NullEntry
                                                          /\ r[2].type = "function" }) },
    totalClasses   |-> IF rows = {} THEN {}
                       ELSE { Cardinality({ r \in rows : r[2] # NullEntry
                                                          /\ r[2].type = "class" }) },
    totalPatterns  |-> IF rows = {} THEN {}
                       ELSE { Cardinality({ r \in rows : r[2] # NullEntry
                                                          /\ r[2].type = "pattern" }) },
    totalLines     |-> IF { r \in rows : r[2] # NullEntry } = {} THEN {}
                       ELSE { SumLines({ r \in rows : r[2] # NullEntry }) } ]

\* getStats()
getStats(db) == StatsOf(JoinedRows(db))

\* removeProject that deletes the projects row and leaves its entries.
RemoveProjectRowOnly(db, name) ==
  LET project == getProject(db, name)
  IN IF project = NoProject
     THEN [ db |-> db, error |-> "Project not found" ]
     ELSE [ db |-> [db EXCEPT !.projects = { p \in @ : p.id # project.id }],
            error |-> "none" ]

\* removeProject without the test of the row: nothing is thrown.
RemoveProjectUnchecked(db, name) ==
  LET project == getProject(db, name)
  IN [ db |-> [db EXCEPT
                 !.entries = { e \in @ : e.projectId # project.id },
                 !.projects = { p \in @ : p.id # project.id }],
       error |-> "none" ]

\* removeProject: not found throws; else the entries of the row's id, then the row.
removeProject(db, name) ==
  LET project == getProject(db, name)
  IN IF project = NoProject
     THEN [ db |-> db, error |-> "Project not found" ]
     ELSE [ db |-> [db EXCEPT
                      !.entries = { e \in @ : e.projectId # project.id },
                      !.projects = { p \in @ : p.id # project.id }],
            error |-> "none" ]

\* File contents on disk.
\*   function authLogin() { return token + session; }
\*   function login() { return auth(token); }
ContentAuth == <<"f","u","n","c","t","i","o","n"," ","a","u","t","h","L","o","g","i","n","(",")"," ","{"," ","r","e","t","u","r","n"," ","t","o","k","e","n"," ","+"," ","s","e","s","s","i","o","n",";"," ","}","\n","f","u","n","c","t","i","o","n"," ","l","o","g","i","n","(",")"," ","{"," ","r","e","t","u","r","n"," ","a","u","t","h","(","t","o","k","e","n",")",";"," ","}">>

\*   function login() { return auth(token); }
\*   function save() { my_var = 1; }
ContentAuthV2 == <<"f","u","n","c","t","i","o","n"," ","l","o","g","i","n","(",")"," ","{"," ","r","e","t","u","r","n"," ","a","u","t","h","(","t","o","k","e","n",")",";"," ","}","\n","f","u","n","c","t","i","o","n"," ","s","a","v","e","(",")"," ","{"," ","m","y","_","v","a","r"," ","="," ","1",";"," ","}">>

\*   class Auth { check() { return 1; } }
ContentClass == <<"c","l","a","s","s"," ","A","u","t","h"," ","{"," ","c","h","e","c","k","(",")"," ","{"," ","r","e","t","u","r","n"," ","1",";"," ","}"," ","}">>

\*   function pad() {<190 spaces> return 42; }
\* (a body whose only statement starts past its first 200 characters)
ContentPad == <<"f","u","n","c","t","i","o","n"," ","p","a","d","(",")"," ","{"," "," "," "," "," "," "," "," "," "," "," "," "," "," "," "," "," "," "," "," "," "," "," "," "," "," "," "," "," "," "," "," "," "," "," "," "," "," "," "," "," "," "," "," "," "," "," "," "," "," "," "," "," "," "," "," "," "," "," "," "," "," "," "," "," "," "," "," "," "," "," "," "," "," "," "," "," "," "," "," "," "," "," "," "," "," "," "," "," "," "," "," "," "," "," "," "," "," "," "," "," "," "," "," "," "," "," "," "," "," "," "," "," "," "," "," "," "," "," "," "," "," "," "," "," "," "," "," "," "," "," "," "," "," "," "," "," "," "," "," "," "," "," "," "," "," "," "," "," "," "," "," "," "," "," "," "," "," "," "," "," "," "," "," "," "," "," "," "," "," "," "," "," "," "," "," "," "," "," "," "," "," "," "," "," "," "," "," "," "," "," ","r","e","t","u","r","n"," ","4","2",";"," ","}">>

\* The extractors' results on the contents above, computed once: the extractors
\* are pure, so a run on the same content gives the same units.
KnownContents == { ContentAuth, ContentAuthV2, ContentClass, ContentPad }

ExtractedFunctions == [ c \in KnownContents |-> extractFunctions(c) ]

ExtractedClasses == [ c \in KnownContents |-> extractClasses(c) ]

\* this.extractFunctions(content)
FunctionsOf(content) == ExtractedFunctions[content]

\* this.extractClasses(content)
ClassesOf(content) == ExtractedClasses[content]

\* --------------------------------------------------- IndexManager.indexProject

\* code.slice(0, 200)
SnippetLen == 200

\* slice(0, 200) that cuts nothing.
SliceWhole(code) == code

Slice(code) == SubSeq(code, 1, IF Len(code) < SnippetLen THEN Len(code) ELSE SnippetLen)

\* basename(path): a path is the sequence of its segments.
basename(path) == IF path = <<>> THEN "" ELSE path[Len(path)]

\* units.forEach(u => this.db.addCodeEntry({...})) for the units of one file.
RECURSIVE AddUnits(_, _, _, _, _)
AddUnits(db, projectId, file, type, units) ==
  IF units = <<>> THEN db
  ELSE LET u == Head(units)
       IN AddUnits(addCodeEntry(db,
                     [ projectId |-> projectId, filePath |-> file, name |-> u.name,
                       type |-> type, code |-> u.code, snippet |-> Slice(u.code),
                       lineStart |-> u.lineStart, lineEnd |-> u.lineEnd,
                       keywords |-> u.keywords ]),
                   projectId, file, type, Tail(units))

\* The for loop over the discovered files, from the k-th on. A file is
\* [file, content, readable]; readFileSync throws on one that cannot be read and
\* the loop is left with what was inserted so far.
RECURSIVE IndexFiles(_, _, _, _, _)
RECURSIVE IndexFile(_, _, _, _, _, _, _)
IndexFiles(db, projectId, files, k, found) ==
  IF k > Len(files)
  THEN [ db |-> db, error |-> "none", functionsFound |-> found[1], classesFound |-> found[2] ]
  ELSE IF ~files[k].readable
  THEN [ db |-> db, error |-> "readFileSync", functionsFound |-> found[1],
         classesFound |-> found[2] ]
  ELSE IndexFile(db, projectId, files, k, found,
                 FunctionsOf(files[k].content), ClassesOf(files[k].content))

\* The loop body for the k-th file once its functions and classes are extracted:
\* the entries of the functions, then those of the classes, then the next file.
IndexFile(db, projectId, files, k, found, functions, classes) ==
  IndexFiles(AddUnits(AddUnits(db, projectId, files[k].file, "function", functions),
                      projectId, files[k].file, "class", classes),
             projectId, files, k + 1,
             <<found[1] + Len(functions), found[2] + Len(classes)>>)

\* indexProject from the end of the for loop on: an error thrown in the loop
\* propagates, else the file count is stored and the counts are returned.
\* (patternsExtracted, a count of import statements that is only returned, is
\* left out.)
IndexLooped(looped, projectId, files) ==
  IF looped.error # "none"
  THEN [ db |-> looped.db, ret |-> [error |-> looped.error] ]
  ELSE [ db |-> updateProjectFileCount(looped.db, projectId, Len(files)),
         ret |-> [ error |-> "none", filesIndexed |-> Len(files),
                   functionsFound |-> looped.functionsFound,
                   classesFound |-> looped.classesFound ] ]

\* indexProject from the return of addProject on: projectId is its lastInsertRowid,
\* the entries of that id are cleared and the files indexed.
IndexAdded(db, added, files) ==
  IF added.error # "none"
  THEN [ db |-> db, ret |-> [error |-> added.error] ]
  ELSE IndexLooped(IndexFiles(clearProjectEntries(added.db, added.lastInsertRowid),
                              added.lastInsertRowid, files, 1, <<0, 0>>),
                   added.lastInsertRowid, files)

\* indexProject(path, {name}) when file discovery yields `files`: [db, ret].
indexProject(db, path, name, files) ==
  IndexAdded(db, addProject(db, IF name # "" THEN name ELSE basename(path), path), files)

\* updateProject(projectName): not found throws, else a re-index of the stored path.
updateProject(db, projectName, files) ==
  LET project == getProject(db, projectName)
  IN IF project = NoProject
     THEN [ db |-> db, ret |-> [error |-> "Project not found"] ]
     ELSE indexProject(db, project.path, projectName, files)

\* ------------------------------------------------- Database.searchCode, search

\* SQLite's LIKE without ESCAPE: text s from position j on against pattern p from
\* position i on. % stands for any run of characters, _ for any one character,
\* any other character for itself, letters compared without case (ASCII).
RECURSIVE LikeAt(_, _, _, _)
LikeAt(p, i, s, j) ==
  IF i > Len(p) THEN j > Len(s)
  ELSE IF p[i] = "%"
  THEN i = Len(p) \/ \E k \in j..Len(s) + 1 : LikeAt(p, i + 1, s, k)
  ELSE /\ j <= Len(s)
       /\ (p[i] = "_" \/ LowerChar(p[i]) = LowerChar(s[j]))
       /\ LikeAt(p, i + 1, s, j + 1)

\* s LIKE p
Like(s, p) == LikeAt(p, 1, s, 1)

\* The parameter `%${query}%`.
LikeParam(query) == <<"%">> \o query \o <<"%">>

\* The CASE expression selected as relevance.
Relevance(e, query) ==
  IF Like(e.name, LikeParam(query)) THEN 100
  ELSE IF Like(e.keywords, LikeParam(query)) THEN 50
  ELSE IF Like(e.snippet, LikeParam(query)) THEN 25
  ELSE 10

\* A WHERE that looks into the full code as well.
WhereLikeCode(e, query) ==
  \/ Like(e.name, LikeParam(query))
  \/ Like(e.keywords, LikeParam(query))
  \/ Like(e.snippet, LikeParam(query))
  \/ Like(e.code, LikeParam(query))

\* WHERE (ce.name LIKE ? OR ce.keywords LIKE ? OR ce.snippet LIKE ?)
WhereLike(e, query) ==
  \/ Like(e.name, LikeParam(query))
  \/ Like(e.keywords, LikeParam(query))
  \/ Like(e.snippet, LikeParam(query))

\* The selected row of an entry joined with its project: ce.*, projectName, relevance.
Row(e, p, query) ==
  [ id |-> e.id, projectId |-> e.projectId, filePath |-> e.filePath, name |-> e.name,
    type |-> e.type, code |-> e.code, snippet |-> e.snippet,
    lineStart |-> e.lineStart, lineEnd |-> e.lineEnd, keywords |-> e.keywords,
    projectName |-> p.name, relevance |-> Relevance(e, query) ]

\* The filters joined to the WHERE with OR instead of AND.
CandidatesOrFilters(db, query, options) ==
  { Row(e, p, query) : <<e, p>> \in
      { x \in db.entries \X db.projects :
          /\ x[1].projectId = x[2].id
          /\ \/ WhereLike(x[1], query)
             \/ options.project # "" /\ x[2].name = options.project
             \/ options.type # "" /\ x[1].type = options.type } }

\* FROM code_entries ce JOIN projects p ON ce.project_id = p.id WHERE ..., with
\* AND p.name = ? / AND ce.type = ? added for an option that is truthy
\* (options.project and options.type are "" when absent).
Candidates(db, query, options) ==
  { Row(e, p, query) : <<e, p>> \in
      { x \in db.entries \X db.projects :
          /\ x[1].projectId = x[2].id
          /\ WhereLike(x[1], query)
          /\ (options.project # "" => x[2].name = options.project)
          /\ (options.type # "" => x[1].type = options.type) } }

\* Comparison of two texts under the BINARY collation: -1, 0 or 1.
RECURSIVE CompareFrom(_, _, _)
CompareFrom(a, b, i) ==
  IF i > Len(a) /\ i > Len(b) THEN 0
  ELSE IF i > Len(a) THEN -1
  ELSE IF i > Len(b) THEN 1
  ELSE IF Ord(a[i]) < Ord(b[i]) THEN -1
  ELSE IF Ord(a[i]) > Ord(b[i]) THEN 1
  ELSE CompareFrom(a, b, i + 1)

Compare(a, b) == CompareFrom(a, b, 1)

\* ORDER BY with the name descending.
RowBeforeNameDesc(r1, r2) ==
  \/ r1.relevance > r2.relevance
  \/ r1.relevance = r2.relevance /\ Compare(r1.name, r2.name) > 0

\* ORDER BY relevance DESC, ce.name: r1 has to come before r2.
RowBefore(r1, r2) ==
  \/ r1.relevance > r2.relevance
  \/ r1.relevance = r2.relevance /\ Compare(r1.name, r2.name) < 0

\* The orders ORDER BY may give the rows S: rows that agree on both keys come in
\* whatever order the engine visits them.
RECURSIVE SortedOrders(_)
SortedOrders(S) ==
  IF S = {} THEN { <<>> }
  ELSE UNION { { <<r>> \o rest : rest \in SortedOrders(S \ {r}) } :
               r \in { x \in S : \A y \in S : ~RowBefore(y, x) } }

\* LIMIT ?: the first n rows; a negative n is no limit.
Limit(rows, n) ==
  IF n < 0 \/ n >= Len(rows) THEN rows ELSE SubSeq(rows, 1, n)

\* searchCode(query, options): the results the statement may return.
searchCode(db, query, options) ==
  { Limit(rows, options.limit) : rows \in SortedOrders(Candidates(db, query, options)) }

DigitSeq == <<"0","1","2","3","4","5","6","7","8","9">>

\* The value of the digits of s from position i on, after the value acc.
RECURSIVE ParseDigits(_, _, _)
ParseDigits(s, i, acc) ==
  IF i <= Len(s) /\ s[i] \in DigitSet
  THEN ParseDigits(s, i + 1, acc * 10 + (CHOOSE d \in 0..9 : DigitSeq[d + 1] = s[i]))
  ELSE acc

\* parseInt(s): an optional sign and the leading digits; "NaN" when there are none.
parseInt(s) ==
  LET signed == s # <<>> /\ s[1] \in {"-", "+"}
      first  == IF signed THEN 2 ELSE 1
  IN IF ~(first <= Len(s) /\ s[first] \in DigitSet) THEN "NaN"
     ELSE IF signed /\ s[1] = "-" THEN 0 - ParseDigits(s, first, 0)
     ELSE ParseDigits(s, first, 0)

\* QueryManager.search(query, options): options.limit is the text of the number.
search(db, query, options) ==
  searchCode(db, query, [ project |-> options.project, type |-> options.type,
                          limit |-> parseInt(options.limit) ])

\* ------------------------------------------------------------------ state

VARIABLES
  projects,      \* the rows of table projects: [id, name, path, fileCount]
  entries,       \* the rows of table code_entries
  projectSeq,    \* sqlite_sequence of projects: the largest id AUTOINCREMENT gave
  entrySeq,      \* sqlite_sequence of code_entries
  foreignKeys,   \* whether the SQLite build enforces FOREIGN KEY (PRAGMA foreign_keys)
  call,          \* the last call made on the managers, with its arguments
  ret,           \* what that call returned, or the error it threw
  braceText,     \* findClosingBrace alone: its content argument
  braceStart,    \*   its startIndex argument
  braceOut,      \*   its result (-1: not called yet)
  exContent,     \* the extractors alone: the file content
  exUnits,       \*   [functions, classes] extracted from it (<<>>: not called yet)
  kwCode,        \* extractKeywords alone: its code argument
  kwDone,        \*   whether it was called
  kwOut          \*   the string it returned

dbVars == <<projects, entries, projectSeq, entrySeq, foreignKeys, call, ret>>

braceVars == <<braceText, braceStart, braceOut>>

exVars == <<exContent, exUnits>>

kwVars == <<kwCode, kwDone, kwOut>>

vars == <<projects, entries, projectSeq, entrySeq, foreignKeys, call, ret,
          braceText, braceStart, braceOut, exContent, exUnits, kwCode, kwDone, kwOut>>

\* The store of a fresh ~/.devmem/index.db after Database.init, before any call.
InitDb ==
  /\ projects = {}
  /\ entries = {}
  /\ projectSeq = 0
  /\ entrySeq = 0
  /\ call = [op |-> "none"]
  /\ ret = [error |-> "none"]

InitBrace ==
  /\ braceText = <<>>
  /\ braceStart = 0
  /\ braceOut = -1

InitEx ==
  /\ exContent = <<>>
  /\ exUnits = <<>>

InitKw ==
  /\ kwCode = <<>>
  /\ kwDone = FALSE
  /\ kwOut = <<>>

\* --------------------------------------------------- findClosingBrace on its own

\* The longest text findClosingBrace is run on.
MaxBraceLen == 6

BraceAlphabet == {"{", "}", "\"", "'", "\\"}

BraceTexts == UNION { [1..n -> BraceAlphabet] : n \in 0..MaxBraceLen }

InitBraceRun ==
  /\ InitDb /\ foreignKeys = TRUE /\ InitEx /\ InitKw
  /\ braceText \in BraceTexts
  /\ braceStart \in 0..Len(braceText)
  /\ braceOut = -1

RunFindClosingBrace ==
  /\ braceOut = -1
  /\ braceOut' = findClosingBrace(braceText, braceStart)
  /\ UNCHANGED <<braceText, braceStart>>
  /\ UNCHANGED dbVars
  /\ UNCHANGED exVars
  /\ UNCHANGED kwVars

NextBrace == RunFindClosingBrace

SpecBrace == InitBraceRun /\ [][NextBrace]_vars

\* The brace matcher as specified, stated by positions rather than by a scan.
\* A quote at offset c is unescaped when no backslash stands right before it.
Unescaped(t, c) == c = 0 \/ CharAt(t, c - 1) # "\\"

\* The least element of a non-empty set of numbers.
Least(S) == CHOOSE x \in S : \A y \in S : x <= y

\* The offsets from `from` on that lie in string-literal mode, the quotes included:
\* the mode is entered on the first quote met outside a string and left on the
\* first unescaped quote of the same kind after it (never, when there is none).
RECURSIVE StringOffsets(_, _)
StringOffsets(t, from) ==
  LET opens == { o \in from..Len(t) - 1 : CharAt(t, o) \in {"\"", "'"} }
  IN IF opens = {} THEN {}
     ELSE LET o      == Least(opens)
              closes == { c \in o + 1..Len(t) - 1 :
                            CharAt(t, c) = CharAt(t, o) /\ Unescaped(t, c) }
          IN IF closes = {} THEN o..Len(t) - 1
             ELSE (o..Least(closes)) \cup StringOffsets(t, Least(closes) + 1)

\* The depth counter after offset i: braces outside strings from `from` to i.
DepthAfter(t, from, i) ==
  LET inStr == StringOffsets(t, from)
  IN Cardinality({ j \in from..i : CharAt(t, j) = "{" /\ j \notin inStr })
     - Cardinality({ j \in from..i : CharAt(t, j) = "}" /\ j \notin inStr })

SpecifiedClosingBrace(t, from) ==
  LET inStr  == StringOffsets(t, from)
      closed == { i \in from..Len(t) - 1 :
                    /\ CharAt(t, i) = "}"
                    /\ i \notin inStr
                    /\ DepthAfter(t, from, i) = 0 }
  IN IF closed = {} THEN Len(t) ELSE Least(closed) + 1

\* C9: findClosingBrace, from any offset of any text, returns what the specified
\* brace matcher returns: the offset right after the first `}` outside a string
\* literal that brings the depth back to zero, the length of the text when there
\* is none; string-literal mode starts at a quote and ends only at an unescaped
\* quote of the same kind, and no character inside it counts.
C9_FindClosingBraceAsSpecified ==
  braceOut # -1 => braceOut = SpecifiedClosingBrace(braceText, braceStart)

\* C9 witness: a brace inside a string literal was skipped and the block closed
\* after the string.
C9_Witness ==
  /\ braceOut = 5
  /\ braceText = <<"{", "\"", "}", "\"", "}">>
  /\ braceStart = 0

\* ------------------------------------------------------ the extractors on their own

\* The most tokens a file content is put together from.
MaxTokens == 4

ExTokens == { KwFunction, KwClass, <<"f">>, <<" ">>, <<"\n">>, <<"{">>, <<"}">> }

RECURSIVE Flatten(_)
Flatten(pieces) == IF pieces = <<>> THEN <<>> ELSE Head(pieces) \o Flatten(Tail(pieces))

ExContents == { Flatten(toks) : toks \in UNION { [1..n -> ExTokens] : n \in 0..MaxTokens } }

InitExtractRun ==
  /\ InitDb /\ foreignKeys = TRUE /\ InitBrace /\ InitKw
  /\ exContent \in ExContents
  /\ exUnits = <<>>

\* The two extractor calls indexProject makes on one file's content.
RunExtract ==
  /\ exUnits = <<>>
  /\ exUnits' = [ functions |-> extractFunctions(exContent),
                  classes   |-> extractClasses(exContent) ]
  /\ UNCHANGED exContent
  /\ UNCHANGED dbVars
  /\ UNCHANGED braceVars
  /\ UNCHANGED kwVars

NextExtract == RunExtract

SpecExtract == InitExtractRun /\ [][NextExtract]_vars

\* The units of the last extraction, functions then classes.
ExtractedUnits == IF exUnits = <<>> THEN <<>> ELSE exUnits.functions \o exUnits.classes

\* The number of line breaks in a text.
Newlines(s) == Cardinality({ i \in DOMAIN s : s[i] = "\n" })

\* C10 as claimed: lineStart is 1 plus the line breaks before the match, and
\* lineEnd is lineStart plus the line breaks in the body (a body on one line has
\* lineEnd = lineStart).
C10_LineEndIsStartPlusNewlines ==
  \A k \in DOMAIN ExtractedUnits :
    LET u == ExtractedUnits[k] IN
    /\ u.lineStart = 1 + Newlines(Substring(exContent, 0, u.index))
    /\ u.lineEnd = u.lineStart + Newlines(u.code)

\* C10 amended: lineStart is 1 plus the line breaks before the match, and lineEnd
\* is lineStart plus the number of lines of the body, which is its line breaks
\* plus one (a body on one line has lineEnd = lineStart + 1).
C10_LineEndIsStartPlusLineCount ==
  \A k \in DOMAIN ExtractedUnits :
    LET u == ExtractedUnits[k] IN
    /\ u.lineStart = 1 + Newlines(Substring(exContent, 0, u.index))
    /\ u.lineEnd = u.lineStart + Newlines(u.code) + 1

\* C10 witness: a function found on the second line of the file whose body has
\* one line, so that lineStart = 2 and lineEnd = 3.
C10_Witness ==
  /\ exUnits # <<>>
  /\ \E k \in DOMAIN exUnits.functions :
       LET u == exUnits.functions[k] IN
       u.index > 0 /\ u.lineStart = 2 /\ Newlines(u.code) = 0 /\ u.lineEnd = 3

\* --------------------------------------------------------- the store machine

\* The largest project id AUTOINCREMENT hands out: past it no project is added.
MaxProjectId == 3

\* The store the calls act on.
Db ==
  [ projects |-> projects, entries |-> entries, projectSeq |-> projectSeq,
    entrySeq |-> entrySeq, foreignKeys |-> foreignKeys ]

SetDb(db) ==
  /\ projects' = db.projects
  /\ entries' = db.entries
  /\ projectSeq' = db.projectSeq
  /\ entrySeq' = db.entrySeq
  /\ foreignKeys' = db.foreignKeys

File(file, content) == [file |-> file, content |-> content, readable |-> TRUE]

Unreadable(file) == [file |-> file, content |-> <<>>, readable |-> FALSE]

\* What file discovery may yield for a project root at the time of a run.
FileLists ==
  { <<>>,
    << File("a.ts", ContentAuth) >>,
    << File("a.ts", ContentAuthV2), File("b.ts", ContentClass) >>,
    << File("a.ts", ContentAuth), Unreadable("b.ts") >> }

\* The arguments of `devmem index <path> [-n <name>]`.
IndexArgs ==
  { [path |-> <<"srv", "api">>, name |-> ""],
    [path |-> <<"tmp", "api">>, name |-> ""],
    [path |-> <<"srv", "web">>, name |-> ""] }

ProjectNames == {"api", "web"}

Init ==
  /\ InitDb /\ foreignKeys \in BOOLEAN
  /\ InitBrace /\ InitEx /\ InitKw

IndexProject ==
  /\ projectSeq < MaxProjectId
  /\ \E a \in IndexArgs, files \in FileLists :
     \E r \in { indexProject(Db, a.path, a.name, files) } :
       LET project == IF a.name # "" THEN a.name ELSE basename(a.path)
       IN /\ SetDb(r.db)
          /\ call' = [ op |-> "indexProject", project |-> project, path |-> a.path,
                       files |-> files, existed |-> ProjectRows(Db, project) # {} ]
          /\ ret' = r.ret
  /\ UNCHANGED braceVars
  /\ UNCHANGED exVars
  /\ UNCHANGED kwVars

\* `devmem update <project>`. (`devmem update` without a name runs updateProject
\* for each stored project in turn: a sequence of these steps.)
UpdateProject ==
  /\ projectSeq < MaxProjectId
  /\ \E name \in ProjectNames, files \in FileLists :
     \E r \in { updateProject(Db, name, files) } :
       /\ SetDb(r.db)
       /\ call' = [ op |-> "updateProject", project |-> name,
                    path |-> IF ProjectRows(Db, name) = {} THEN <<>>
                             ELSE getProject(Db, name).path,
                    files |-> files, existed |-> ProjectRows(Db, name) # {} ]
       /\ ret' = r.ret
  /\ UNCHANGED braceVars
  /\ UNCHANGED exVars
  /\ UNCHANGED kwVars

RemoveProject ==
  /\ \E name \in ProjectNames :
     \E r \in { removeProject(Db, name) } :
       /\ SetDb(r.db)
       /\ call' = [ op |-> "removeProject", project |-> name,
                    existed |-> ProjectRows(Db, name) # {} ]
       /\ ret' = [error |-> r.error]
  /\ UNCHANGED braceVars
  /\ UNCHANGED exVars
  /\ UNCHANGED kwVars

\* search(query, {project, type, limit}), the store left as it is.
DoSearch(query, project, type, limit) ==
  /\ call' = [ op |-> "search", query |-> query,
               options |-> [project |-> project, type |-> type, limit |-> limit] ]
  /\ \E rows \in search(Db, query, [project |-> project, type |-> type, limit |-> limit]) :
       ret' = [error |-> "none", rows |-> rows]
  /\ UNCHANGED <<projects, entries, projectSeq, entrySeq, foreignKeys>>
  /\ UNCHANGED braceVars
  /\ UNCHANGED exVars
  /\ UNCHANGED kwVars

\* `devmem show <id>`: getCode(parseInt(id)), for the oldest id and for an id
\* that was never handed out.
GetCode ==
  /\ \E id \in {1, entrySeq + 1} :
       /\ call' = [ op |-> "getCode", id |-> id ]
       /\ ret' = getCode(Db, id)
  /\ UNCHANGED <<projects, entries, projectSeq, entrySeq, foreignKeys>>
  /\ UNCHANGED braceVars
  /\ UNCHANGED exVars
  /\ UNCHANGED kwVars

\* `devmem stats`
GetStats ==
  /\ call' = [ op |-> "getStats" ]
  /\ ret' = [ error |-> "none", stats |-> getStats(Db) ]
  /\ UNCHANGED <<projects, entries, projectSeq, entrySeq, foreignKeys>>
  /\ UNCHANGED braceVars
  /\ UNCHANGED exVars
  /\ UNCHANGED kwVars

\* The search exportContext makes for a project: every entry of it.
\* (In the source the limit is the number 1000, passed to searchCode directly.)
SearchProject ==
  \E name \in ProjectNames :
    DoSearch(<<>>, name, "", <<"1","0","0","0">>)

Next ==
  \/ IndexProject \/ UpdateProject \/ RemoveProject
  \/ SearchProject \/ GetCode \/ GetStats

Spec == Init /\ [][Next]_vars

\* ------------------------------------------------------------ re-indexing

\* The last call was a run of indexProject (directly or through updateProject).
IndexRan == call.op \in {"indexProject", "updateProject"}

\* What identifies a unit in a listing: where it is and what it holds.
UnitKey(file, type, u) ==
  [ filePath |-> file, type |-> type, name |-> u.name, code |-> u.code,
    lineStart |-> u.lineStart, lineEnd |-> u.lineEnd, keywords |-> u.keywords ]

UnitKeys(file, type, units) == [k \in DOMAIN units |-> UnitKey(file, type, units[k])]

\* The units the extractors find in the files of a run, file by file.
RECURSIVE UnitsOfFiles(_)
UnitsOfFiles(files) ==
  IF files = <<>> THEN <<>>
  ELSE UnitKeys(Head(files).file, "function", FunctionsOf(Head(files).content))
         \o UnitKeys(Head(files).file, "class", ClassesOf(Head(files).content))
         \o UnitsOfFiles(Tail(files))

RowKey(r) ==
  [ filePath |-> r.filePath, type |-> r.type, name |-> r.name, code |-> r.code,
    lineStart |-> r.lineStart, lineEnd |-> r.lineEnd, keywords |-> r.keywords ]

\* Two sequences hold the same elements the same number of times.
SameBag(a, b) ==
  /\ Len(a) = Len(b)
  /\ \A x \in { a[k] : k \in DOMAIN a } \cup { b[k] : k \in DOMAIN b } :
       Cardinality({ k \in DOMAIN a : a[k] = x }) = Cardinality({ k \in DOMAIN b : b[k] = x })

\* The listing of a project: search with the empty query, the project as filter
\* and a large limit.
Listings(name) ==
  search(Db, <<>>, [project |-> name, type |-> "", limit |-> <<"1","0","0","0">>])

\* C1: after indexProject has run for a project name that was indexed before (all
\* its files readable), the listing of that project holds exactly the units of
\* this run: one entry per unit, none left from the run before.
C1_ReindexReplacesEntries ==
  ( /\ IndexRan
    /\ call.existed
    /\ \A k \in DOMAIN call.files : call.files[k].readable )
  => \A rows \in Listings(call.project) :
       SameBag([k \in DOMAIN rows |-> RowKey(rows[k])], UnitsOfFiles(call.files))

C3_IndexProjectIsAtomic ==
  [][ /\ ( call'.op \in {"indexProject", "updateProject"} /\ ret'.error = "readFileSync" )
        => ( projects' = projects /\ entries' = entries )
      /\ ( call'.op \in {"indexProject", "updateProject"} /\ ret'.error = "none" )
        => ret'.filesIndexed = Len(call'.files)
    ]_vars

\* ------------------------------------------------------- search on its own

\* A store in which nothing was indexed yet.
EmptyStore ==
  [ projects |-> {}, entries |-> {}, projectSeq |-> 0, entrySeq |-> 0,
    foreignKeys |-> TRUE ]

\* The store after `devmem index srv/api` found a.ts and b.ts.
StoreApi ==
  indexProject(EmptyStore, <<"srv", "api">>, "",
               << File("a.ts", ContentAuth), File("b.ts", ContentClass) >>).db

\* The store after `devmem index srv/web` then found a.ts and p.ts.
StoreApiWeb ==
  indexProject(StoreApi, <<"srv", "web">>, "",
               << File("a.ts", ContentAuthV2), File("p.ts", ContentPad) >>).db

SearchStores == { EmptyStore, StoreApi, StoreApiWeb }

\* The query argument of `devmem search <query>`.
Queries ==
  { <<>>, <<"a","u","t","h">>, <<"A","U","T","H">>, <<"t","o","k","e","n">>,
    <<"4","2">>, <<"_">>, <<"%">>, <<"z","z","z">> }

\* The -l option of `devmem search`, a text; its default is "10".
LimitTexts ==
  { <<"0">>, <<"1">>, <<"2">>, <<"1","0">>, <<"1","0","0","0">>, <<"-","1">> }

InitSearchRun ==
  /\ \E s \in SearchStores :
       /\ projects = s.projects
       /\ entries = s.entries
       /\ projectSeq = s.projectSeq
       /\ entrySeq = s.entrySeq
  /\ foreignKeys \in BOOLEAN
  /\ call = [op |-> "none"]
  /\ ret = [error |-> "none"]
  /\ InitBrace /\ InitEx /\ InitKw

\* One `devmem search <query> [-p <project>] [-t <type>] [-l <n>]` on the store.
SearchAny ==
  /\ call.op = "none"
  /\ \E query \in Queries, project \in {"", "api", "web"},
        type \in {"", "function", "class"}, limit \in LimitTexts :
       DoSearch(query, project, type, limit)

NextSearch == SearchAny

SpecSearch == InitSearchRun /\ [][NextSearch]_vars

\* The last call was a search; its rows, its query and the number its limit reads as.
SearchRan == call.op = "search"

ResultIds == { ret.rows[k].id : k \in DOMAIN ret.rows }

LimitNumber == parseInt(call.options.limit)

\* The limit was no constraint: every candidate is in the result.
Unlimited == LimitNumber < 0 \/ LimitNumber >= Cardinality(entries)

\* q, taken as a literal string, occurs in s when letter case is ignored.
ContainsLiteral(s, q) ==
  \E i \in 0..(Len(s) - Len(q)) :
    \A k \in 1..Len(q) : LowerChar(s[i + k]) = LowerChar(q[k])

\* The query occurs literally in one of the three searched fields of e.
LiteralMatch(e, q) ==
  \/ ContainsLiteral(e.name, q)
  \/ ContainsLiteral(e.keywords, q)
  \/ ContainsLiteral(e.snippet, q)

\* The name of the project that owns entry e ("" when its row is gone).
OwnerName(e) ==
  IF \E p \in projects : p.id = e.projectId
  THEN (CHOOSE p \in projects : p.id = e.projectId).name
  ELSE ""

\* Entry e passes the filters of the last search.
PassesFilters(e) ==
  /\ call.options.project # "" => OwnerName(e) = call.options.project
  /\ call.options.type # "" => e.type = call.options.type

\* C4: with a limit that cuts nothing, the entries a search returns are exactly
\* those in which the query, read as a literal string without regard to letter
\* case, occurs in name, keywords or snippet, and that pass the filters; the
\* empty query returns every entry that passes the filters.
C4_CandidatesAreLiteralMatches ==
  (SearchRan /\ Unlimited) =>
    /\ ResultIds = { e.id : e \in { x \in entries :
                                     LiteralMatch(x, call.query) /\ PassesFilters(x) } }
    /\ call.query = <<>> => ResultIds = { e.id : e \in { x \in entries : PassesFilters(x) } }

\* The tier of a row when the query is read literally: 0 when no field holds it.
LiteralTier(r, q) ==
  IF ContainsLiteral(r.name, q) THEN 100
  ELSE IF ContainsLiteral(r.keywords, q) THEN 50
  ELSE IF ContainsLiteral(r.snippet, q) THEN 25
  ELSE 0

\* C5: the relevance of every returned row is the first tier that holds the query:
\* 100 for name, else 50 for keywords, else 25 for snippet; so a row that holds
\* it in its name comes before every row that holds it in its keywords only.
C5_RelevanceIsFirstLiteralTier ==
  SearchRan =>
    /\ \A k \in DOMAIN ret.rows : ret.rows[k].relevance = LiteralTier(ret.rows[k], call.query)
    /\ \A j, k \in DOMAIN ret.rows :
         ( /\ ContainsLiteral(ret.rows[j].name, call.query)
           /\ ~ContainsLiteral(ret.rows[k].name, call.query)
           /\ ContainsLiteral(ret.rows[k].keywords, call.query) ) => j < k

\* Entry e holds the query in its full code past the snippet only: not in name,
\* keywords or snippet.
MatchesPastSnippetOnly(e, q) ==
  /\ ContainsLiteral(e.code, q)
  /\ ~LiteralMatch(e, q)

\* The query holds one of the characters LIKE reads as a wildcard.
HasWildcard(q) == \E k \in DOMAIN q : q[k] \in {"%", "_"}

\* C6 as claimed: an entry that holds the query in its full code past character
\* 200 only is returned by the search, with relevance 10.
C6_FallbackTierFires ==
  (SearchRan /\ Unlimited) =>
    \A e \in entries :
      (MatchesPastSnippetOnly(e, call.query) /\ PassesFilters(e)) =>
        \E k \in DOMAIN ret.rows : ret.rows[k].id = e.id /\ ret.rows[k].relevance = 10

\* C6 amended: no returned row has relevance 10, every row has 100, 50 or 25; and
\* for a query without % and _ an entry that holds the query in none of name,
\* keywords and snippet is not returned, whatever its full code holds.
C6_FallbackTierNeverFires ==
  SearchRan =>
    /\ \A k \in DOMAIN ret.rows : ret.rows[k].relevance \in {100, 50, 25}
    /\ ~HasWildcard(call.query) =>
         \A e \in entries : ~LiteralMatch(e, call.query) => e.id \notin ResultIds

\* C6 witness: a search whose query an entry holds past character 200 only, the
\* filters and the limit letting it through, and the entry is not in the result.
C6_Witness ==
  /\ SearchRan /\ Unlimited
  /\ ~HasWildcard(call.query)
  /\ \E e \in entries :
       /\ MatchesPastSnippetOnly(e, call.query)
       /\ Len(e.code) > SnippetLen
       /\ PassesFilters(e)
       /\ e.id \notin ResultIds

\* Name a comes strictly before name b in lexicographic order of character codes.
NameLess(a, b) ==
  \E i \in 1..(Len(a) + 1) :
    /\ i <= Len(b)
    /\ \A k \in 1..(i - 1) : a[k] = b[k]
    /\ (i = Len(a) + 1 \/ Ord(a[i]) < Ord(b[i]))

\* Row r may stand before row s: higher relevance, or the same and no later name.
MayPrecede(r, s) ==
  \/ r.relevance > s.relevance
  \/ r.relevance = s.relevance /\ ~NameLess(s.name, r.name)

\* C7: for a limit n >= 0 the result is the first n rows of the candidates sorted
\* by relevance descending, then name ascending: it has min(n, candidates) rows,
\* all of them distinct candidates, in that order, and no candidate that was cut
\* should have come before a row that was kept.
C7_SortedThenTruncated ==
  (SearchRan /\ LimitNumber >= 0) =>
    LET rows  == ret.rows
        cands == Candidates(Db, call.query, call.options)
        kept  == { rows[k] : k \in DOMAIN rows }
    IN /\ Len(rows) = IF LimitNumber < Cardinality(cands) THEN LimitNumber
                      ELSE Cardinality(cands)
       /\ kept \subseteq cands
       /\ Cardinality(kept) = Len(rows)
       /\ \A k \in 1..(Len(rows) - 1) : MayPrecede(rows[k], rows[k + 1])
       /\ \A c \in cands \ kept : \A r \in kept : MayPrecede(r, c)

\* C7 witness: a limit of 2 cut a candidate list of three or more, and the two
\* rows kept have the same relevance and different names.
C7_Witness ==
  /\ SearchRan
  /\ LimitNumber = 2
  /\ Cardinality(Candidates(Db, call.query, call.options)) >= 3
  /\ Len(ret.rows) = 2
  /\ ret.rows[1].relevance = ret.rows[2].relevance
  /\ NameLess(ret.rows[1].name, ret.rows[2].name)

\* C8: with a project filter every returned row belongs to the project of that
\* name, with a kind filter every returned row has that kind, with both no row
\* breaks either.
C8_FiltersComposeWithAnd ==
  SearchRan =>
    \A k \in DOMAIN ret.rows :
      LET r == ret.rows[k] IN
      /\ call.options.project # "" =>
           /\ r.projectName = call.options.project
           /\ \E p \in projects : p.id = r.projectId /\ p.name = call.options.project
      /\ call.options.type # "" => r.type = call.options.type

\* C8 witness: a search with both filters returned rows while the query also
\* matched an entry of another project and an entry of another kind.
C8_Witness ==
  /\ SearchRan
  /\ call.options.project # "" /\ call.options.type # ""
  /\ ret.rows # <<>>
  /\ \E e \in entries :
       LiteralMatch(e, call.query) /\ OwnerName(e) # call.options.project
         /\ e.type = call.options.type
  /\ \E e \in entries :
       LiteralMatch(e, call.query) /\ OwnerName(e) = call.options.project
         /\ e.type # call.options.type

\* ---------------------------------------------------- extractKeywords on its own

\* The most pieces a code text is put together from.
MaxKwPieces == 4

KwPieces ==
  { <<"r","e","t","u","r","n">>, <<"R","e","t","u","r","n">>, <<"i","f">>,
    <<"a","b">>, <<"a","b","c">>, <<"A","b","c">>, <<"x","_","1">>, <<" ">>, <<"(">> }

KwCodes == { Flatten(ps) : ps \in UNION { [1..n -> KwPieces] : n \in 0..MaxKwPieces } }

InitKeywordsRun ==
  /\ InitDb /\ foreignKeys = TRUE /\ InitBrace /\ InitEx
  /\ kwCode \in KwCodes
  /\ kwDone = FALSE
  /\ kwOut = <<>>

\* this.extractKeywords(code), as called on the code of every unit.
RunExtractKeywords ==
  /\ ~kwDone
  /\ kwDone' = TRUE
  /\ kwOut' = extractKeywords(kwCode)
  /\ UNCHANGED kwCode
  /\ UNCHANGED dbVars
  /\ UNCHANGED braceVars
  /\ UNCHANGED exVars

NextKeywords == RunExtractKeywords

SpecKeywords == InitKeywordsRun /\ [][NextKeywords]_vars

\* The pieces of s between single spaces, in order (<<>> for the empty string).
RECURSIVE SpaceSplit(_, _)
SpaceSplit(s, cur) ==
  IF s = <<>> THEN <<cur>>
  ELSE IF Head(s) = " " THEN <<cur>> \o SpaceSplit(Tail(s), <<>>)
  ELSE SpaceSplit(Tail(s), Append(cur, Head(s)))

KeywordTokens == IF kwOut = <<>> THEN <<>> ELSE SpaceSplit(kwOut, <<>>)

\* The stoplist as the specification gives it.
Stoplist ==
  { <<"c","o","n","s","t">>, <<"l","e","t">>, <<"v","a","r">>, <<"i","f">>,
    <<"e","l","s","e">>, <<"f","o","r">>, <<"w","h","i","l","e">>,
    <<"r","e","t","u","r","n">>, <<"f","u","n","c","t","i","o","n">>,
    <<"c","l","a","s","s">> }

\* A text without upper-case letters.
IsLowerCased(t) == \A k \in DOMAIN t : t[k] \notin UpperSet

\* C11: the keywords string of any code is a space-joined list of lower-cased
\* tokens with no stoplist token (whatever its case in the code), no token of
\* length 2 or less and no token twice.
C11_KeywordsAreClean ==
  kwDone =>
    /\ \A k \in DOMAIN KeywordTokens :
         /\ IsLowerCased(KeywordTokens[k])
         /\ KeywordTokens[k] \notin Stoplist
         /\ Len(KeywordTokens[k]) > 2
    /\ \A j, k \in DOMAIN KeywordTokens : j # k => KeywordTokens[j] # KeywordTokens[k]

\* --------------------------------------------------------- not found, removal

\* The store after the step, as the operators take it.
DbAfter ==
  [ projects |-> projects', entries |-> entries', projectSeq |-> projectSeq',
    entrySeq |-> entrySeq', foreignKeys |-> foreignKeys' ]

\* C12: removeProject and updateProject for a name that is not stored, and getCode
\* for an id that is not stored, fail with a not-found error and leave the
\* project rows and the entries as they were.
C12_NotFoundLeavesStore ==
  [][ /\ ( /\ call'.op \in {"removeProject", "updateProject"}
           /\ ~\E p \in projects : p.name = call'.project )
        => ( /\ ret'.error = "Project not found"
             /\ projects' = projects /\ entries' = entries )
      /\ ( /\ call'.op = "getCode"
           /\ ~\E e \in entries : e.id = call'.id )
        => ( /\ ret'.error = "Code entry not found"
             /\ projects' = projects /\ entries' = entries )
    ]_vars

\* C12 witness: removeProject was called for a name that is not stored while
\* another project and its entries are, and it failed with the not-found error.
C12_Witness ==
  /\ call.op = "removeProject"
  /\ ~call.existed
  /\ ret.error = "Project not found"
  /\ projects # {} /\ entries # {}

\* The searches made to look for the entries of a removed project.
RemovalQueries == { <<>>, <<"a","u","t","h">> }

\* C13: after removeProject succeeded for a stored name, getProject finds no row
\* of that name, no entry carries the id the row had, and no search, whatever its
\* query and filters, returns a row of that id or that project name.
C13_RemoveCascades ==
  [][ ( call'.op = "removeProject" /\ ret'.error = "none" ) =>
        \A p \in { q \in projects : q.name = call'.project } :
          /\ getProject(DbAfter, call'.project) = NoProject
          /\ ~\E e \in entries' : e.projectId = p.id
          /\ \A query \in RemovalQueries, project \in {"", call'.project},
                type \in {"", "function"} :
               \A rows \in search(DbAfter, query, [ project |-> project, type |-> type,
                                                    limit |-> <<"1","0","0","0">> ]) :
                 \A k \in DOMAIN rows :
                   rows[k].projectId # p.id /\ rows[k].projectName # call'.project
    ]_vars

\* C13 witness: removeProject succeeded, entries were deleted from the store at
\* some point, and another project's entries are still there.
C13_Witness ==
  /\ call.op = "removeProject"
  /\ call.existed
  /\ ret.error = "none"
  /\ Cardinality(entries) < entrySeq
  /\ \E p \in projects : \E e \in entries : e.projectId = p.id

\* ------------------------------------------- the entries indexProject persists

\* The most pieces a file content is put together from.
MaxPersistPieces == 5

\* 188 spaces: `function f{` and `}` around them are 200 characters.
PersistPad == <<" "," "," "," "," "," "," "," "," "," "," "," "," "," "," "," "," "," "," "," "," "," "," "," "," "," "," "," "," "," "," "," "," "," "," "," "," "," "," "," "," "," "," "," "," "," "," "," "," "," "," "," "," "," "," "," "," "," "," "," "," "," "," "," "," "," "," "," "," "," "," "," "," "," "," "," "," "," "," "," "," "," "," "," "," "," "," "," "," "," "," "," "," "," "," "," "," "," "," "," "," "," "," "," "," "," "," "," "," "," "," "," "," "," "," "," "," "," "," "," "," "," "," "," "," "," "," "," "," "," "," "," "," "," "," "," "," "," "," "," "," "," "," "," "," "," "," "," "," "," "," "," "," "," "," "," "," "," "," "," "," "," "," "," "," "," "," "," "," "," "," "," "," "," "," "," "," "," "," "," "," "," "," "," "," "," "," "," ">>

PersistPieces ==
  { KwFunction \o <<" ", "f">>, KwClass \o <<" ", "C">>, <<"{">>, <<"}">>, <<"\n">>,
    PersistPad }

PersistContents ==
  { Flatten(toks) : toks \in UNION { [1..n -> PersistPieces] : n \in 0..MaxPersistPieces } }

InitPersistRun ==
  /\ InitDb /\ foreignKeys = TRUE /\ InitBrace /\ InitKw
  /\ exContent \in PersistContents
  /\ exUnits = <<>>

\* indexProject(path) on an empty store when file discovery yields the one file
\* a.ts with the given content: addProject, clearProjectEntries, the loop body for
\* the file, updateProjectFileCount.
IndexOneFile(db, added, content) ==
  IndexLooped(IndexFile(clearProjectEntries(added.db, added.lastInsertRowid),
                        added.lastInsertRowid, << File("a.ts", content) >>, 1, <<0, 0>>,
                        extractFunctions(content), extractClasses(content)),
              added.lastInsertRowid, << File("a.ts", content) >>)

\* `devmem index srv/api` on the empty store, a.ts holding exContent.
PersistUnits ==
  /\ call.op = "none"
  /\ \E r \in { IndexOneFile(Db, addProject(Db, "api", <<"srv", "api">>), exContent) } :
       /\ SetDb(r.db)
       /\ call' = [ op |-> "indexProject", project |-> "api", path |-> <<"srv", "api">>,
                    files |-> << File("a.ts", exContent) >>, existed |-> FALSE ]
       /\ ret' = r.ret
  /\ UNCHANGED braceVars
  /\ UNCHANGED exVars
  /\ UNCHANGED kwVars

NextPersist == PersistUnits

SpecPersist == InitPersistRun /\ [][NextPersist]_vars

\* s is the text t cut after some number of its characters.
IsPrefix(s, t) == Len(s) <= Len(t) /\ \A i \in 1..Len(s) : s[i] = t[i]

\* C14: every entry persisted by indexProject has lineStart >= 1 and lineEnd >=
\* lineStart, a snippet of at most 200 characters that is a prefix of its code,
\* and a snippet equal to its code when the code has at most 200 characters.
C14_PersistedEntriesAreWellFormed ==
  \A e \in entries :
    /\ e.lineStart >= 1
    /\ e.lineEnd >= e.lineStart
    /\ Len(e.snippet) <= 200
    /\ IsPrefix(e.snippet, e.code)
    /\ Len(e.code) <= 200 => e.snippet = e.code

\* C14 witness: the run persisted an entry with code of more than 200 characters,
\* cut to a snippet of 200, and one with code of at most 200 characters, kept whole.
C14_Witness ==
  /\ call.op = "indexProject"
  /\ \E e \in entries : Len(e.code) > 200 /\ Len(e.snippet) = 200 /\ e.snippet # e.code
  /\ \E e \in entries : Len(e.code) <= 200 /\ e.snippet = e.code

\* ------------------------------------------------- project records, other projects

\* C15: there is at most one project row per name, and after indexProject(path,
\* name) has succeeded the row of that name holds that path and, as fileCount,
\* the number of files discovered by that run.
C15_OneRowPerNameWithPathAndCount ==
  /\ \A p, q \in projects : p.name = q.name => p = q
  /\ (IndexRan /\ ret.error = "none") =>
       \E p \in projects :
         /\ p.name = call.project
         /\ p.path = call.path
         /\ p.fileCount = Len(call.files)

\* C15 witness: a project stored before was indexed again, two files were
\* discovered and the run succeeded, while a second project is stored.
C15_Witness ==
  /\ call.op = "indexProject"
  /\ call.existed
  /\ ret.error = "none"
  /\ Len(call.files) = 2
  /\ \E p \in projects : p.name = call.project /\ p.fileCount = 2
  /\ Cardinality(projects) = 2

\* The listing of project `name` in store db.
ListingsIn(db, name) ==
  search(db, <<>>, [project |-> name, type |-> "", limit |-> <<"1","0","0","0">>])

\* C16: indexing, updating or removing project A leaves every other project B as
\* it was: the same row (id, path, fileCount) and the same listing by search.
C16_OtherProjectsUntouched ==
  [][ call'.op \in {"indexProject", "updateProject", "removeProject"} =>
        \A B \in { p.name : p \in projects \cup projects' } \ { call'.project } :
          /\ { p \in projects' : p.name = B } = { p \in projects : p.name = B }
          /\ ListingsIn(DbAfter, B) = ListingsIn(Db, B)
    ]_vars

\* C16 witness: a project was indexed again with success, or removed, while
\* another project with entries of its own is stored.
C16_Witness ==
  /\ call.op \in {"indexProject", "updateProject", "removeProject"}
  /\ call.existed
  /\ ret.error = "none"
  /\ \E p \in projects :
       /\ p.name # call.project
       /\ \E e \in entries : e.projectId = p.id

\* ------------------------------------------------------------------ statistics

\* The sum of fileCount over a set of project rows.
RECURSIVE TotalFileCount(_)
TotalFileCount(rows) ==
  IF rows = {} THEN 0
  ELSE LET p == CHOOSE x \in rows : TRUE
       IN p.fileCount + TotalFileCount(rows \ {p})

\* A reported number n stands for v (a sum over no row is reported as NULL, which
\* is let pass for 0).
Reports(n, v) == n = {v} \/ (n = {} /\ v = 0)

\* C17: getStats reports the number of project rows, the sum of their fileCount
\* (each row once), and the numbers of stored entries of kind function and class.
C17_StatsAreTotals ==
  call.op = "getStats" =>
    /\ ret.stats.totalProjects = Cardinality(projects)
    /\ Reports(ret.stats.totalFiles, TotalFileCount(projects))
    /\ Reports(ret.stats.totalFunctions,
               Cardinality({ e \in entries : e.type = "function" }))
    /\ Reports(ret.stats.totalClasses,
               Cardinality({ e \in entries : e.type = "class" }))

====
